---- MODULE Spec2Model ----
(***************************************************************************)
(* audio-analyzer: frame segmentation, cutoff calibration, cutoff-bin      *)
(* resolution and per-frame spectral analysis (audio_frame_analysis.py),   *)
(* the single-file and folder-batch drivers (run_modes.py), the CSV result *)
(* log (data_and_error_logging.py) and the threaded spectrogram stage      *)
(* (spectrogram_generator.py).                                             *)
(*                                                                         *)
(* Number representation.  Frequencies are kept in half-Hertz (a value f   *)
(* Hz is the integer 2*f), which is exact for samplerate/2.0 - 100.0.      *)
(* Samples are integers in units of 5e-5, so the silence threshold 1e-4 is *)
(* 2.  A ratio high/total is the pair [num, den]; 0.0 is [num 0, den 1].   *)
(* A non-finite float (NaN/inf) is the reserved value NaN.                 *)
(***************************************************************************)
EXTENDS Integers, Sequences, FiniteSets, TLC

(* ------------------------------ bounds --------------------------------- *)
MaxLen == 3          \* samples of a decoded buffer in SpecFile
MaxFrameSize == 3    \* frame_size values in SpecFile
MaxStep == 2         \* step values in SpecFile
MaxMag == 2          \* largest spectral magnitude rfft may return
MaxBufLen == 12      \* buffer lengths in SpecFrames
MaxSegSize == 5      \* frame_size values in SpecFrames
MaxSegStep == 5      \* step values in SpecFrames
MaxLowRate == 12     \* sample rates 1..MaxLowRate in SpecCalib
MaxBinN == 8         \* frame lengths n in SpecCalib
MaxCutoff2 == 24     \* cutoff frequencies 0..MaxCutoff2 half-Hz in SpecCalib

(* ------------------------- program constants --------------------------- *)
CUTOFF_HZ == 20500
NYQUIST_SAFETY_BAND_HZ == 100
SilenceThreshold == 2
NaN == 99

Unset == 0 - 1

VARIABLES
    \* run_single_file
    data, samplerate, frame_size, step, frames, effective_cutoff,
    ratios, fft_cache, file_result, f_pc,
    \* _cutoff_bin called on its own
    bin_n, bin_c, bin_k,
    \* run_folder_batch and the CSV result log
    flac_file_paths, err_every, status_cycle, idx, results_buffer,
    upscaled_flac_file_paths, csv_exists, csv_lines, csv_write_failed, b_pc,
    \* generate_spectrogram_threads
    sp_paths, images, cores, ffmpeg_ok, task, collected, failures,
    reported_failed, sp_pc

fileVars == <<data, samplerate, frame_size, step, frames, effective_cutoff,
              ratios, fft_cache, file_result, f_pc>>
binVars == <<bin_n, bin_c, bin_k>>
batchVars == <<flac_file_paths, err_every, status_cycle, idx, results_buffer,
               upscaled_flac_file_paths, csv_exists, csv_lines, csv_write_failed, b_pc>>
spectroVars == <<sp_paths, images, cores, ffmpeg_ok, task, collected, failures,
                 reported_failed, sp_pc>>
nonFileVars == <<binVars, batchVars, spectroVars>>
vars == <<fileVars, binVars, batchVars, spectroVars>>

(* ------------------------------ helpers -------------------------------- *)
Min(a, b) == IF a < b THEN a ELSE b
Max(a, b) == IF a > b THEN a ELSE b

RECURSIVE Gcd(_, _)
Gcd(a, b) == IF b = 0 THEN a ELSE Gcd(b, a % b)

RECURSIVE IsPowerOfTwo(_)
IsPowerOfTwo(m) == IF m = 1 THEN TRUE ELSE IF m % 2 = 1 THEN FALSE ELSE IsPowerOfTwo(m \div 2)

SeqsUpTo(S, n) == UNION {[1..m -> S] : m \in 0..n}

\* Python's data[a:b] for 0 <= a <= b: the end is clamped to len(data).
Slice(d, a, b) == SubSeq(d, a + 1, Min(b, Len(d)))

(* --------------------- audio_frame_analysis.py ------------------------- *)

\* divide_into_frames: for start in range(0, len(data) - frame_size + 1, step)
RECURSIVE FramesFrom(_, _, _, _)
FramesFrom(d, fs, st, start) ==
    IF start < Len(d) - fs + 1
    THEN <<Slice(d, start, start + fs)>> \o FramesFrom(d, fs, st, start + st)
    ELSE <<>>

RECURSIVE FramesFrom_OffByOne(_, _, _, _)
FramesFrom_OffByOne(d, fs, st, start) ==
    IF start < Len(d) - fs
    THEN <<Slice(d, start, start + fs)>> \o FramesFrom_OffByOne(d, fs, st, start + st)
    ELSE <<>>

divide_into_frames_OffByOne(d, fs, st) == FramesFrom_OffByOne(d, fs, st, 0)

divide_into_frames(d, fs, st) == FramesFrom(d, fs, st, 0)

\* min(CUTOFF_HZ, max(0.0, samplerate / 2.0 - NYQUIST_SAFETY_BAND_HZ)), in half-Hz
calculate_effective_cutoff_NoMargin(sr) == Min(2 * CUTOFF_HZ, Max(0, sr))

calculate_effective_cutoff(sr) ==
    Min(2 * CUTOFF_HZ, Max(0, sr - 2 * NYQUIST_SAFETY_BAND_HZ))

\* df = samplerate / n is an exact double iff n / gcd(samplerate, n) is a power of two.
DfExact(sr, n) == IsPowerOfTwo(n \div Gcd(sr, n))

\* The values int(np.floor(cutoff_hz / df)) can take.  The exact quotient is
\* c2*n / (2*sr).  Both divisions round to double: when df is inexact and the
\* exact quotient is a positive integer q, the computed quotient may fall just
\* below q (samplerate 400, n 44, cutoff 100.0 gives 10, not 11).
FloorQuotient(n, sr, c2) ==
    LET q == (c2 * n) \div (2 * sr)
    IN  IF (c2 * n) % (2 * sr) = 0 /\ q >= 1 /\ ~DfExact(sr, n) THEN {q - 1, q} ELSE {q}

FloorQuotient_Ceil(n, sr, c2) == {((c2 * n) \div (2 * sr)) + 1}

\* _cutoff_bin: max(0, min(k, n // 2)); the set of values the call can return
cutoff_bin_RoundUp(n, sr, c2) == {Max(0, Min(k, n \div 2)) : k \in FloorQuotient_Ceil(n, sr, c2)}

cutoff_bin(n, sr, c2) == {Max(0, Min(k, n \div 2)) : k \in FloorQuotient(n, sr, c2)}

\* FrameFFT dataclass
FrameFFT(freqs, spectrum, total) ==
    [freqs_hz |-> freqs, spectrum_abs |-> spectrum, total_energy |-> total]

HasNaN(s) == \E i \in 1..Len(s) : s[i] = NaN
AbsVal(v) == IF v = NaN THEN NaN ELSE IF v < 0 THEN 0 - v ELSE v

\* np.max(np.abs(x)) < 1e-4  (a NaN maximum compares False)
IsSilent_NoAbs(x) == ~HasNaN(x) /\ \A i \in 1..Len(x) : x[i] < SilenceThreshold

IsSilent(x) == ~HasNaN(x) /\ \A i \in 1..Len(x) : AbsVal(x[i]) < SilenceThreshold

\* x * hann(n, sym=True): the symmetric Hann window is 0 at both ends for
\* n >= 2 and [1.0] for n = 1; interior coefficients are positive, so an
\* interior sample stays zero or non-zero.  NaN * 0 is NaN.
Windowed(x) ==
    [i \in 1..Len(x) |->
        IF x[i] = NaN THEN NaN
        ELSE IF Len(x) >= 2 /\ (i = 1 \/ i = Len(x)) THEN 0
        ELSE x[i]]

\* np.abs(rfft(windowed)): n//2 + 1 non-negative magnitudes.  The transform is
\* library code; its outcomes are every spectrum the input allows: all NaN
\* when the input holds a NaN, all zero exactly when the input is all zero.
RfftAbs(w) ==
    LET bins == (Len(w) \div 2) + 1
    IN  IF HasNaN(w) THEN {[i \in 1..bins |-> NaN]}
        ELSE IF \A i \in 1..Len(w) : w[i] = 0 THEN {[i \in 1..bins |-> 0]}
        ELSE {s \in [1..bins -> 0..MaxMag] : \E i \in 1..bins : s[i] > 0}

\* spectrum[lo:].sum() over 1-based positions lo..Len; NaN propagates
RECURSIVE SumFrom(_, _)
SumFrom(s, lo) ==
    IF lo > Len(s) THEN 0
    ELSE LET rest == SumFrom(s, lo + 1)
         IN  IF s[lo] = NaN \/ rest = NaN THEN NaN ELSE s[lo] + rest

\* rfftfreq(n, d=1/samplerate): bin i-1 has frequency (i-1)*samplerate/n
Rfftfreq(n, sr) == [i \in 1..((n \div 2) + 1) |-> [num |-> (i - 1) * sr, den |-> n]]

Zero == [num |-> 0, den |-> 1]

\* analyze_frame, silent return path (lines 59-62)
analyze_frame_silent_NoAppend(cache) == [ratio |-> Zero, cache |-> cache]

analyze_frame_silent(cache) ==
    [ratio |-> Zero, cache |-> Append(cache, FrameFFT(<<>>, <<>>, 0))]

\* analyze_frame, degenerate-energy return path (lines 77-82)
analyze_frame_degenerate(cache, n, sr, spectrum) ==
    [ratio |-> Zero, cache |-> Append(cache, FrameFFT(Rfftfreq(n, sr), spectrum, 0))]

\* analyze_frame, normal return path (lines 85-96)
high_band_energy(spectrum, k) == SumFrom(spectrum, k + 2)

analyze_frame_normal(cache, n, sr, spectrum, total, k) ==
    [ratio |-> [num |-> high_band_energy(spectrum, k), den |-> total],
     cache |-> Append(cache, FrameFFT(Rfftfreq(n, sr), spectrum, total))]

\* analyze_frame(single_frame, samplerate, effective_cutoff, fft_cache_list)
\* on a single-channel frame with an accumulator: every pair (returned ratio,
\* accumulator afterwards) the call can produce.  On the normal path total is
\* finite and positive, so the ratio is finite and the assertion passes.
analyze_frame(x, sr, ec, cache) ==
    IF IsSilent(x) THEN {analyze_frame_silent(cache)}
    ELSE UNION {
        LET total == SumFrom(spectrum, 1)
        IN  IF total = NaN \/ total <= 0
            THEN {analyze_frame_degenerate(cache, Len(x), sr, spectrum)}
            ELSE {analyze_frame_normal(cache, Len(x), sr, spectrum, total, k) :
                    k \in cutoff_bin(Len(x), sr, ec)}
        : spectrum \in RfftAbs(Windowed(x))}

(* --------------------------- run_single_file --------------------------- *)
Samples == {0, 1, 0 - 3, NaN}
FileRates == {44100, 96000}
\* statuses determine_file_status can return
Statuses == {"Likely ORIGINAL", "Likely UPSCALED", "Inconclusive"}

NoResult == [status |-> ""]

BinIdle == bin_n = 1 /\ bin_c = 0 /\ bin_k = Unset

SpectroIdle ==
    /\ sp_paths = <<>>
    /\ images = {}
    /\ cores = 1
    /\ ffmpeg_ok = FALSE
    /\ task = <<>>
    /\ collected = {}
    /\ failures = <<>>
    /\ reported_failed = Unset
    /\ sp_pc = "idle"

FileIdle ==
    /\ data = <<>>
    /\ samplerate = 44100
    /\ frame_size = 1
    /\ step = 1
    /\ frames = <<>>
    /\ effective_cutoff = Unset
    /\ ratios = <<>>
    /\ fft_cache = <<>>
    /\ file_result = NoResult
    /\ f_pc = "idle"

BatchIdle ==
    /\ flac_file_paths = <<>>
    /\ err_every = 0
    /\ status_cycle = FALSE
    /\ idx = 0
    /\ results_buffer = <<>>
    /\ upscaled_flac_file_paths = <<>>
    /\ csv_exists = FALSE
    /\ csv_lines = <<>>
    /\ csv_write_failed = FALSE
    /\ b_pc = "idle"

InitFile ==
    /\ data \in SeqsUpTo(Samples, MaxLen)
    /\ samplerate \in FileRates
    /\ frame_size \in 1..MaxFrameSize
    /\ step \in 1..MaxStep
    /\ frames = <<>>
    /\ effective_cutoff = Unset
    /\ ratios = <<>>
    /\ fft_cache = <<>>
    /\ file_result = NoResult
    /\ f_pc = "start"
    /\ BinIdle
    /\ BatchIdle
    /\ SpectroIdle

\* data, samplerate = load_flac(file_path)
LoadFlac ==
    /\ f_pc = "start"
    /\ f_pc' = "loaded"
    /\ UNCHANGED <<data, samplerate, frame_size, step, frames, effective_cutoff,
                   ratios, fft_cache, file_result, nonFileVars>>

\* load_flac raises: the exception leaves run_single_file
LoadFlacRaises ==
    /\ f_pc = "start"
    /\ f_pc' = "raised"
    /\ UNCHANGED <<data, samplerate, frame_size, step, frames, effective_cutoff,
                   ratios, fft_cache, file_result, nonFileVars>>

\* frames = divide_into_frames(data)
DivideIntoFrames ==
    /\ f_pc = "loaded"
    /\ frames' = divide_into_frames(data, frame_size, step)
    /\ f_pc' = "framed"
    /\ UNCHANGED <<data, samplerate, frame_size, step, effective_cutoff,
                   ratios, fft_cache, file_result, nonFileVars>>

\* effective_cutoff_hz = calculate_effective_cutoff(samplerate)
CalculateEffectiveCutoff ==
    /\ f_pc = "framed"
    /\ effective_cutoff' = calculate_effective_cutoff(samplerate)
    /\ f_pc' = "analysing"
    /\ UNCHANGED <<data, samplerate, frame_size, step, frames,
                   ratios, fft_cache, file_result, nonFileVars>>

\* one iteration of [analyze_frame(frame, ...) for frame in frames]
AnalyzeFrame ==
    /\ f_pc = "analysing"
    /\ Len(ratios) < Len(frames)
    /\ \E out \in analyze_frame(frames[Len(ratios) + 1], samplerate,
                                effective_cutoff, fft_cache) :
          /\ ratios' = Append(ratios, out.ratio)
          /\ fft_cache' = out.cache
    /\ UNCHANGED <<data, samplerate, frame_size, step, frames, effective_cutoff,
                   file_result, f_pc, nonFileVars>>

\* determine_file_status(...) and the result dictionary
BuildResult ==
    /\ f_pc = "analysing"
    /\ Len(ratios) = Len(frames)
    /\ \E st \in Statuses :
          file_result' = [status |-> st,
                          samplerate_hz |-> samplerate,
                          num_samples |-> Len(data),
                          num_total_frames |-> Len(frames),
                          num_non_silent_frames |->
                              Cardinality({i \in 1..Len(ratios) : ratios[i].num > 0}),
                          effective_cutoff_hz |-> effective_cutoff]
    /\ f_pc' = "done"
    /\ UNCHANGED <<data, samplerate, frame_size, step, frames, effective_cutoff,
                   ratios, fft_cache, nonFileVars>>

NextFile ==
    \/ LoadFlac
    \/ LoadFlacRaises
    \/ DivideIntoFrames
    \/ CalculateEffectiveCutoff
    \/ AnalyzeFrame
    \/ BuildResult

SpecFile == InitFile /\ [][NextFile]_vars

(* ------------------- divide_into_frames on its own --------------------- *)
\* The buffer holds its own positions, so a frame shows where it was cut.
InitFrames ==
    /\ \E L \in 0..MaxBufLen : data = [i \in 1..L |-> i]
    /\ samplerate = 44100
    /\ frame_size \in 1..MaxSegSize
    /\ step \in 1..MaxSegStep
    /\ frames = <<>>
    /\ effective_cutoff = Unset
    /\ ratios = <<>>
    /\ fft_cache = <<>>
    /\ file_result = NoResult
    /\ f_pc = "loaded"
    /\ BinIdle
    /\ BatchIdle
    /\ SpectroIdle

NextFrames == DivideIntoFrames

SpecFrames == InitFrames /\ [][NextFrames]_vars

(* ------- calculate_effective_cutoff and _cutoff_bin on their own ------- *)
CalibRates == (1..MaxLowRate) \cup
    {199, 200, 201, 400, 8000, 41199, 41200, 41201, 44100, 48000, 96000}
CalibCutoffs == (0..MaxCutoff2) \cup {200, 2 * CUTOFF_HZ}

InitCalib ==
    /\ data = <<>>
    /\ samplerate \in CalibRates
    /\ frame_size = 1
    /\ step = 1
    /\ frames = <<>>
    /\ effective_cutoff = Unset
    /\ ratios = <<>>
    /\ fft_cache = <<>>
    /\ file_result = NoResult
    /\ f_pc = "framed"
    /\ bin_n \in 1..MaxBinN
    /\ bin_c \in CalibCutoffs
    /\ bin_k = Unset
    /\ BatchIdle
    /\ SpectroIdle

\* k = _cutoff_bin(n, float(samplerate), float(cutoff_hz))
CutoffBin ==
    /\ bin_k = Unset
    /\ bin_k' \in cutoff_bin(bin_n, samplerate, bin_c)
    /\ UNCHANGED <<fileVars, bin_n, bin_c, batchVars, spectroVars>>

NextCalib ==
    \/ CalculateEffectiveCutoff
    \/ CutoffBin

SpecCalib == InitCalib /\ [][NextCalib]_vars

(* ----------- run_modes.py: run_folder_batch and the result log --------- *)
BATCH_SIZE == 50
MaxFiles == 101      \* FLAC files discovered in the folder
MaxErrEvery == 3     \* every err_every-th file fails to decode (0: none)

\* a value of the result dictionary: "", a number, or text
Blank == [t |-> "blank", v |-> 0]
Num(v) == [t |-> "num", v |-> v]
Text(v) == [t |-> "text", v |-> v]
Fixed6(v) == [t |-> "fixed6", v |-> v]

RESULT_FIELDNAMES ==
    <<"path", "status", "confidence", "samplerate_hz", "num_samples",
      "num_total_frames", "num_non-silent_frames", "effective_cutoff_hz",
      "per_cutoff_active_fraction">>

\* whether run_single_file(f) raises (load_flac cannot decode the file)
RunSingleFileRaises(f) == err_every > 0 /\ f % err_every = 0

\* what determine_file_status returns for file f: (status, confidence, fractions)
StatusOf(f) ==
    IF ~status_cycle THEN "Likely ORIGINAL"
    ELSE IF f % 3 = 0 THEN "Likely ORIGINAL"
    ELSE IF f % 3 = 1 THEN "Likely UPSCALED"
    ELSE "Inconclusive"
ConfidenceOf(f) == IF StatusOf(f) = "Inconclusive" THEN 0 ELSE 1
FractionsOf(f) == IF StatusOf(f) = "Inconclusive" THEN {} ELSE {<<16000, f % 2>>}

\* _format_fractions_for_csv
format_fractions_for_csv(fractions) == IF fractions = {} THEN Blank ELSE Text(fractions)

\* the dictionary run_single_file returns
RunSingleFileResult(f) ==
    [path |-> f,
     status |-> StatusOf(f),
     confidence |-> Num(ConfidenceOf(f)),
     samplerate_hz |-> Num(44100),
     num_samples |-> Num(f),
     num_total_frames |-> Num(f \div 2),
     num_non_silent_frames |-> Num(f \div 3),
     effective_cutoff_hz |-> Num(CUTOFF_HZ),
     per_cutoff_active_fraction |-> format_fractions_for_csv(FractionsOf(f))]

\* the except branch: {"path", "status": ""} updated to the minimal error row
ErrorResult_StatusKept(f) ==
    [path |-> f, status |-> "", confidence |-> Blank, samplerate_hz |-> Blank,
     num_samples |-> Blank, num_total_frames |-> Blank,
     num_non_silent_frames |-> Blank, effective_cutoff_hz |-> Blank,
     per_cutoff_active_fraction |-> Blank]

ErrorResult(f) ==
    [path |-> f, status |-> "ERROR", confidence |-> Blank, samplerate_hz |-> Blank,
     num_samples |-> Blank, num_total_frames |-> Blank,
     num_non_silent_frames |-> Blank, effective_cutoff_hz |-> Blank,
     per_cutoff_active_fraction |-> Blank]

\* the result the loop body holds for file f after the try/except
ResultOf(f) == IF RunSingleFileRaises(f) THEN ErrorResult(f) ELSE RunSingleFileResult(f)

(* ---------------------- data_and_error_logging.py ---------------------- *)
HeaderLine == [kind |-> "header", fields |-> RESULT_FIELDNAMES]

\* csv text of a value: numbers through str()
CsvCell(v) == IF v.t = "num" THEN Text(v.v) ELSE v

\* one row: confidence as f"{float(conf):.6f}" when it is a number
CsvRow(result) ==
    [kind |-> "row",
     path |-> result.path,
     status |-> result.status,
     confidence |-> IF result.confidence.t = "num"
                    THEN Fixed6(result.confidence.v)
                    ELSE result.confidence,
     samplerate_hz |-> CsvCell(result.samplerate_hz),
     num_samples |-> CsvCell(result.num_samples),
     num_total_frames |-> CsvCell(result.num_total_frames),
     num_non_silent_frames |-> CsvCell(result.num_non_silent_frames),
     effective_cutoff_hz |-> CsvCell(result.effective_cutoff_hz),
     per_cutoff_active_fraction |-> CsvCell(result.per_cutoff_active_fraction)]

\* the lines append_results_to_csv writes: the header when the file does not
\* exist yet, then one row per result
append_results_to_csv(exists, results) ==
    (IF exists THEN <<>> ELSE <<HeaderLine>>)
        \o [i \in 1..Len(results) |-> CsvRow(results[i])]

(* --------------------------- run_folder_batch -------------------------- *)
\* The state after discovery: the n FLAC files found, nothing processed, and
\* no result log yet (create_csv_path names it after the start time).  The
\* last statement hands upscaled_flac_file_paths to
\* generate_spectrogram_threads, whose steps are those of SpecSpectro.
InitBatch ==
    /\ \E n \in 0..MaxFiles : flac_file_paths = [i \in 1..n |-> i]
    /\ err_every \in 0..MaxErrEvery
    /\ status_cycle \in BOOLEAN
    /\ idx = 0
    /\ results_buffer = <<>>
    /\ upscaled_flac_file_paths = <<>>
    /\ csv_exists = FALSE
    /\ csv_lines = <<>>
    /\ csv_write_failed = FALSE
    /\ b_pc = "loop"
    /\ FileIdle
    /\ BinIdle
    /\ SpectroIdle

\* one pass of the for loop up to results_buffer.append(result)
ProcessFile ==
    /\ b_pc = "loop"
    /\ idx < Len(flac_file_paths)
    /\ LET f == flac_file_paths[idx + 1]
           result == ResultOf(f)
       IN  /\ upscaled_flac_file_paths' =
                 IF result.status # "Likely ORIGINAL"
                 THEN Append(upscaled_flac_file_paths, f)
                 ELSE upscaled_flac_file_paths
           /\ results_buffer' = Append(results_buffer, result)
           /\ b_pc' = IF Len(results_buffer) + 1 >= BATCH_SIZE THEN "flush" ELSE "loop"
    /\ idx' = idx + 1
    /\ UNCHANGED <<flac_file_paths, err_every, status_cycle, csv_exists, csv_lines,
                   csv_write_failed, fileVars, binVars, spectroVars>>

\* the buffered write succeeds; results_buffer.clear()
FlushBatch_NoClear ==
    /\ b_pc = "flush"
    /\ csv_lines' = csv_lines \o append_results_to_csv(csv_exists, results_buffer)
    /\ csv_exists' = TRUE
    /\ b_pc' = "loop"
    /\ UNCHANGED <<flac_file_paths, err_every, status_cycle, idx, results_buffer,
                   upscaled_flac_file_paths, csv_write_failed, fileVars, binVars, spectroVars>>

FlushBatch ==
    /\ b_pc = "flush"
    /\ csv_lines' = csv_lines \o append_results_to_csv(csv_exists, results_buffer)
    /\ csv_exists' = TRUE
    /\ results_buffer' = <<>>
    /\ b_pc' = "loop"
    /\ UNCHANGED <<flac_file_paths, err_every, status_cycle, idx,
                   upscaled_flac_file_paths, csv_write_failed, fileVars, binVars, spectroVars>>

\* append_results_to_csv raises: open() fails (nothing written), or the write
\* fails after some of the lines reached the file
AppendRaises ==
    /\ csv_write_failed' = TRUE
    /\ \/ UNCHANGED <<csv_exists, csv_lines>>
       \/ /\ csv_exists' = TRUE
          /\ \E k \in 0..Len(results_buffer) :
                csv_lines' = csv_lines \o
                    SubSeq(append_results_to_csv(csv_exists, results_buffer), 1, k)

\* the buffered write raises: [FATAL] is printed and the exception re-raised
FlushBatchRaises_Swallowed ==
    /\ b_pc = "flush"
    /\ AppendRaises
    /\ results_buffer' = <<>>
    /\ b_pc' = "loop"
    /\ UNCHANGED <<flac_file_paths, err_every, status_cycle, idx,
                   upscaled_flac_file_paths, fileVars, binVars, spectroVars>>

FlushBatchRaises ==
    /\ b_pc = "flush"
    /\ AppendRaises
    /\ b_pc' = "raised"
    /\ UNCHANGED <<flac_file_paths, err_every, status_cycle, idx, results_buffer,
                   upscaled_flac_file_paths, fileVars, binVars, spectroVars>>

\* after the loop: if results_buffer: append_results_to_csv(...); clear();
\* then generate_spectrogram_threads(folder_path, upscaled_flac_file_paths)
FinalFlush ==
    /\ b_pc = "loop"
    /\ idx = Len(flac_file_paths)
    /\ results_buffer # <<>>
    /\ csv_lines' = csv_lines \o append_results_to_csv(csv_exists, results_buffer)
    /\ csv_exists' = TRUE
    /\ results_buffer' = <<>>
    /\ b_pc' = "spectrograms"
    /\ UNCHANGED <<flac_file_paths, err_every, status_cycle, idx,
                   upscaled_flac_file_paths, csv_write_failed, fileVars, binVars, spectroVars>>

\* the final write raises: nothing catches it
FinalFlushRaises ==
    /\ b_pc = "loop"
    /\ idx = Len(flac_file_paths)
    /\ results_buffer # <<>>
    /\ AppendRaises
    /\ b_pc' = "raised"
    /\ UNCHANGED <<flac_file_paths, err_every, status_cycle, idx, results_buffer,
                   upscaled_flac_file_paths, fileVars, binVars, spectroVars>>

\* nothing is left in the buffer: straight to the spectrogram stage
NoFinalFlush ==
    /\ b_pc = "loop"
    /\ idx = Len(flac_file_paths)
    /\ results_buffer = <<>>
    /\ b_pc' = "spectrograms"
    /\ UNCHANGED <<flac_file_paths, err_every, status_cycle, idx, results_buffer,
                   upscaled_flac_file_paths, csv_exists, csv_lines,
                   csv_write_failed, fileVars, binVars, spectroVars>>

NextBatch ==
    \/ ProcessFile
    \/ FlushBatch
    \/ FlushBatchRaises
    \/ FinalFlush
    \/ FinalFlushRaises
    \/ NoFinalFlush

SpecBatch == InitBatch /\ [][NextBatch]_vars

(* ---------------------- spectrogram_generator.py ----------------------- *)
MaxSubmitted == 3    \* files handed to generate_spectrogram_threads
WorkerCap == 6

\* FLAC files of a folder tree: two share a name in different directories,
\* two differ only in the case of the suffix (both pass name.lower().endswith(".flac"))
FlacPaths ==
    {[dir |-> "album", stem |-> "track01", ext |-> "flac"],
     [dir |-> "album/cd2", stem |-> "track01", ext |-> "flac"],
     [dir |-> "album", stem |-> "track01", ext |-> "FLAC"],
     [dir |-> "album", stem |-> "track02", ext |-> "flac"]}
CoreCounts == {1, 4, 16}

\* (spectrogram_directory / upscaled_file_path.name).with_suffix(".jpeg")
OutPath(p) == [dir |-> "spectrograms", stem |-> p.stem, ext |-> "jpeg"]

\* max(1, min(cores // 2, 6))
max_workers == Max(1, Min(cores \div 2, WorkerCap))

\* out_path.is_file() and out_path.stat().st_size > 0
ImageExists(o) == \E im \in images : im.out = o

Finished(i) == task[i] \in {"returned", "skipped", "raised"}
Running == {i \in 1..Len(task) : task[i] = "running"}

\* images: a non-empty image file and the task that wrote it (0: it was
\* there before the call, left by an earlier run)
InitSpectro ==
    /\ sp_paths \in {q \in SeqsUpTo(FlacPaths, MaxSubmitted) :
                        \A i, j \in 1..Len(q) : i # j => q[i] # q[j]}
    /\ images \in {{}, {[out |-> [dir |-> "spectrograms", stem |-> "track02", ext |-> "jpeg"],
                         by |-> 0]}}
    /\ cores \in CoreCounts
    /\ ffmpeg_ok \in BOOLEAN
    /\ task = <<>>
    /\ collected = {}
    /\ failures = <<>>
    /\ reported_failed = Unset
    /\ sp_pc = "start"
    /\ FileIdle
    /\ BinIdle
    /\ BatchIdle

\* spectrogram_directory.mkdir(parents=True, exist_ok=True) raises OSError
MkdirRaises ==
    /\ sp_pc = "start"
    /\ sp_pc' = "raised"
    /\ UNCHANGED <<sp_paths, images, cores, ffmpeg_ok, task, collected, failures,
                   reported_failed, fileVars, binVars, batchVars>>

\* if not ffmpeg_works(): print(...); return None
FfmpegMissing ==
    /\ sp_pc = "start"
    /\ ~ffmpeg_ok
    /\ sp_pc' = "returned_early"
    /\ UNCHANGED <<sp_paths, images, cores, ffmpeg_ok, task, collected, failures,
                   reported_failed, fileVars, binVars, batchVars>>

\* every path is submitted to the executor
SubmitAll ==
    /\ sp_pc = "start"
    /\ ffmpeg_ok
    /\ task' = [i \in 1..Len(sp_paths) |-> "pending"]
    /\ sp_pc' = "pool"
    /\ UNCHANGED <<sp_paths, images, cores, ffmpeg_ok, collected, failures,
                   reported_failed, fileVars, binVars, batchVars>>

\* a free worker takes the next queued task; single_spectrogram returns at
\* once when a non-empty image is already at out_path, else it starts ffmpeg
TaskBegin(i) ==
    /\ sp_pc = "pool"
    /\ task[i] = "pending"
    /\ \A j \in 1..(i - 1) : task[j] # "pending"
    /\ Cardinality(Running) < max_workers
    /\ task' = [task EXCEPT ![i] =
                   IF ImageExists(OutPath(sp_paths[i])) THEN "skipped" ELSE "running"]
    /\ UNCHANGED <<sp_paths, images, cores, ffmpeg_ok, collected, failures,
                   reported_failed, sp_pc, fileVars, binVars, batchVars>>

\* ffmpeg exits 0 having written out_path
TaskRendered(i) ==
    /\ sp_pc = "pool"
    /\ task[i] = "running"
    /\ images' = images \cup {[out |-> OutPath(sp_paths[i]), by |-> i]}
    /\ task' = [task EXCEPT ![i] = "returned"]
    /\ UNCHANGED <<sp_paths, cores, ffmpeg_ok, collected, failures,
                   reported_failed, sp_pc, fileVars, binVars, batchVars>>

\* subprocess.run(cmd, check=True) raises (non-zero exit, or ffmpeg gone)
TaskFfmpegFails(i) ==
    /\ sp_pc = "pool"
    /\ task[i] = "running"
    /\ task' = [task EXCEPT ![i] = "raised"]
    /\ UNCHANGED <<sp_paths, images, cores, ffmpeg_ok, collected, failures,
                   reported_failed, sp_pc, fileVars, binVars, batchVars>>

\* as_completed hands over a finished future; future.result() re-raises the
\* task's exception, which is caught and recorded
Collect_NoTry(i) ==
    /\ sp_pc = "pool"
    /\ i \in 1..Len(task)
    /\ Finished(i)
    /\ i \notin collected
    /\ collected' = collected \cup {i}
    /\ sp_pc' = IF task[i] = "raised" THEN "raised" ELSE sp_pc
    /\ UNCHANGED <<sp_paths, images, cores, ffmpeg_ok, task, failures,
                   reported_failed, fileVars, binVars, batchVars>>

Collect(i) ==
    /\ sp_pc = "pool"
    /\ i \in 1..Len(task)
    /\ Finished(i)
    /\ i \notin collected
    /\ collected' = collected \cup {i}
    /\ failures' = IF task[i] = "raised" THEN Append(failures, sp_paths[i]) ELSE failures
    /\ UNCHANGED <<sp_paths, images, cores, ffmpeg_ok, task,
                   reported_failed, sp_pc, fileVars, binVars, batchVars>>

\* print(f"Spectrograms generated. failed={len(failures)} / total=...")
Report ==
    /\ sp_pc = "pool"
    /\ collected = 1..Len(task)
    /\ reported_failed' = Len(failures)
    /\ sp_pc' = "reported"
    /\ UNCHANGED <<sp_paths, images, cores, ffmpeg_ok, task, collected, failures,
                   fileVars, binVars, batchVars>>

NextSpectro ==
    \/ MkdirRaises
    \/ FfmpegMissing
    \/ SubmitAll
    \/ \E i \in 1..Len(sp_paths) : TaskBegin(i)
    \/ \E i \in 1..Len(sp_paths) : TaskRendered(i)
    \/ \E i \in 1..Len(sp_paths) : TaskFfmpegFails(i)
    \/ \E i \in 1..Len(sp_paths) : Collect(i)
    \/ Report

SpecSpectro == InitSpectro /\ [][NextSpectro]_vars

(* =============================== claims ================================ *)

\* C5 as stated: for every sample rate sr > 0,
\* 0 <= EffectiveCutoff(sr) <= min(20500, sr/2 - 100).
C5_AsStated ==
    effective_cutoff # Unset =>
        /\ 0 <= effective_cutoff
        /\ effective_cutoff <= Min(2 * CUTOFF_HZ, samplerate - 2 * NYQUIST_SAFETY_BAND_HZ)

\* C5 amended: the effective cutoff is always in [0, 20500] Hz; for sr >= 200
\* it is at most sr/2 - 100 (the safety margin below Nyquist); for sr < 200,
\* where sr/2 - 100 is negative, it is 0.
C5_EffectiveCutoffBounds ==
    effective_cutoff # Unset =>
        /\ 0 <= effective_cutoff
        /\ effective_cutoff <= 2 * CUTOFF_HZ
        /\ samplerate >= 2 * NYQUIST_SAFETY_BAND_HZ =>
              effective_cutoff <= samplerate - 2 * NYQUIST_SAFETY_BAND_HZ
        /\ samplerate < 2 * NYQUIST_SAFETY_BAND_HZ => effective_cutoff = 0

C5_Witness ==
    /\ effective_cutoff # Unset
    /\ samplerate >= 2 * NYQUIST_SAFETY_BAND_HZ
    /\ effective_cutoff = samplerate - 2 * NYQUIST_SAFETY_BAND_HZ
    /\ effective_cutoff < 2 * CUTOFF_HZ

\* bin k has frequency k*sr/n; compared with the cutoff c2/2 without division
BinAtOrBelow(k, n, sr, c2) == 2 * k * sr <= c2 * n
BinAbove(k, n, sr, c2) == 2 * k * sr > c2 * n

\* C6 as stated: the index lies in [0, n//2] and is the first bin strictly
\* above the cutoff frequency, clamped to [0, n//2].
C6_AsStated ==
    bin_k # Unset =>
        /\ bin_k \in 0..(bin_n \div 2)
        /\ IF BinAtOrBelow(bin_n \div 2, bin_n, samplerate, bin_c)
           THEN bin_k = bin_n \div 2
           ELSE /\ BinAbove(bin_k, bin_n, samplerate, bin_c)
                /\ bin_k = 0 \/ BinAtOrBelow(bin_k - 1, bin_n, samplerate, bin_c)

\* C6 amended: the index lies in [0, n//2] and is the last bin at or below the
\* cutoff, clamped: bin k is at or below the cutoff and, unless k = n//2, bin
\* k+1 is at or above it, strictly above whenever sr/n is an exact double.
C6_CutoffBinIsLastAtOrBelow ==
    bin_k # Unset =>
        /\ bin_k \in 0..(bin_n \div 2)
        /\ BinAtOrBelow(bin_k, bin_n, samplerate, bin_c)
        /\ bin_k < bin_n \div 2 =>
              \/ BinAbove(bin_k + 1, bin_n, samplerate, bin_c)
              \/ /\ ~DfExact(samplerate, bin_n)
                 /\ 2 * (bin_k + 1) * samplerate = bin_c * bin_n

C6_Witness ==
    /\ bin_k # Unset
    /\ 0 < bin_k
    /\ bin_k < bin_n \div 2
    /\ 2 * bin_k * samplerate = bin_c * bin_n

\* C7: divide_into_frames returns floor((L - frame_size)/step) + 1 frames when
\* L >= frame_size and none when L < frame_size; frame i is the slice that
\* starts at i*step, has frame_size samples and ends inside the buffer.
C7_FrameCountAndSlices ==
    f_pc = "framed" =>
        /\ Len(frames) = IF Len(data) >= frame_size
                         THEN ((Len(data) - frame_size) \div step) + 1
                         ELSE 0
        /\ \A i \in 1..Len(frames) :
              /\ Len(frames[i]) = frame_size
              /\ (i - 1) * step + frame_size <= Len(data)
              /\ \A j \in 1..frame_size : frames[i][j] = data[(i - 1) * step + j]

C7_Witness ==
    /\ f_pc = "framed"
    /\ Len(frames) >= 2
    /\ step < frame_size
    /\ (Len(data) - frame_size) % step # 0

\* sum of s[lo..hi], NaN when a term is NaN
RECURSIVE BandSum(_, _, _)
BandSum(s, lo, hi) ==
    IF lo > hi THEN 0
    ELSE LET rest == BandSum(s, lo, hi - 1)
         IN  IF s[hi] = NaN \/ rest = NaN THEN NaN ELSE rest + s[hi]

Quiet(x) == \A j \in 1..Len(x) :
    x[j] # NaN /\ 0 - SilenceThreshold < x[j] /\ x[j] < SilenceThreshold

C9_CacheAligned ==
    /\ Len(fft_cache) = Len(ratios)
    /\ Len(ratios) <= Len(frames)
    /\ f_pc = "done" => Len(fft_cache) = Len(frames)
    /\ \A i \in 1..Len(fft_cache) :
          IF Quiet(frames[i])
          THEN fft_cache[i] = FrameFFT(<<>>, <<>>, 0)
          ELSE /\ fft_cache[i].spectrum_abs \in RfftAbs(Windowed(frames[i]))
               /\ fft_cache[i].freqs_hz = Rfftfreq(Len(frames[i]), samplerate)

C9_Witness ==
    /\ f_pc = "done"
    /\ \E i, j \in 1..Len(frames) :
          /\ i < j
          /\ Quiet(frames[i])
          /\ ~Quiet(frames[j])
          /\ fft_cache[j].total_energy > 0

\* the data rows of the result log, and the files that fail to decode
DataRows == {i \in 1..Len(csv_lines) : csv_lines[i].kind = "row"}
ErrorRows == {i \in DataRows : csv_lines[i].status = "ERROR"}
FailingFiles == {i \in 1..Len(flac_file_paths) : RunSingleFileRaises(flac_file_paths[i])}

\* C1: when the batch over N files, K of which make run_single_file raise,
\* ends with no CSV write failing, every file was processed and the log holds
\* exactly N data rows: K with status ERROR and blank numeric fields, and N-K
\* with another status.
C1_ErrorRowsAndRowCount ==
    b_pc = "spectrograms" =>
        /\ idx = Len(flac_file_paths)
        /\ Cardinality(DataRows) = Len(flac_file_paths)
        /\ Cardinality(ErrorRows) = Cardinality(FailingFiles)
        /\ Cardinality(DataRows \ ErrorRows) =
              Len(flac_file_paths) - Cardinality(FailingFiles)
        /\ \A i \in ErrorRows :
              /\ csv_lines[i].confidence = Blank
              /\ csv_lines[i].samplerate_hz = Blank
              /\ csv_lines[i].num_samples = Blank
              /\ csv_lines[i].num_total_frames = Blank
              /\ csv_lines[i].num_non_silent_frames = Blank
              /\ csv_lines[i].effective_cutoff_hz = Blank
              /\ csv_lines[i].per_cutoff_active_fraction = Blank

C1_Witness ==
    /\ b_pc = "spectrograms"
    /\ Len(flac_file_paths) > BATCH_SIZE
    /\ Cardinality(FailingFiles) > 0
    /\ Cardinality(FailingFiles) < Len(flac_file_paths)
    /\ Cardinality(ErrorRows) > 0

\* C2: once a call of append_results_to_csv has raised, run_folder_batch has
\* raised: no step of the batch can follow (no file analysed, no row written)
\* and the spectrogram stage is not started.
C2_CsvFailureIsFatal ==
    csv_write_failed =>
        /\ b_pc = "raised"
        /\ ~ENABLED NextBatch

C2_Witness ==
    /\ csv_write_failed
    /\ idx = BATCH_SIZE
    /\ idx < Len(flac_file_paths)

\* the log is the header followed by the rows of the first m discovered files
LogHoldsFirst(m) ==
    /\ Len(csv_lines) = m + 1
    /\ csv_lines[1] = HeaderLine
    /\ \A i \in 1..m : csv_lines[i + 1] = CsvRow(ResultOf(flac_file_paths[i]))

\* C4 as stated: for any number of files the log written by the batch holds
\* the header exactly once, as its first line, followed by exactly one row per
\* processed file in processing order.
C4_AsStated ==
    b_pc = "spectrograms" =>
        /\ csv_exists
        /\ Cardinality({i \in 1..Len(csv_lines) : csv_lines[i].kind = "header"}) = 1
        /\ LogHoldsFirst(Len(flac_file_paths))

\* C4 amended: for any number N >= 1 of files the log holds the header once,
\* first, then one row per processed file in processing order, whatever the
\* number of flushes; with N = 0 no log is written at all.  While no write has
\* failed, the log holds exactly the rows of the files flushed so far.
C4_HeaderOnceRowsInOrder ==
    ~csv_write_failed =>
        /\ Cardinality({i \in 1..Len(csv_lines) : csv_lines[i].kind = "header"}) =
              (IF csv_exists THEN 1 ELSE 0)
        /\ IF csv_exists
           THEN LogHoldsFirst(idx - Len(results_buffer))
           ELSE csv_lines = <<>> /\ idx = Len(results_buffer)
        /\ b_pc = "spectrograms" =>
              /\ results_buffer = <<>>
              /\ idx = Len(flac_file_paths)
              /\ csv_exists <=> Len(flac_file_paths) >= 1

C4_Witness ==
    /\ b_pc = "spectrograms"
    /\ Len(flac_file_paths) = 2 * BATCH_SIZE + 1
    /\ Len(csv_lines) = 2 * BATCH_SIZE + 2

HasImage(i) == ImageExists(OutPath(sp_paths[i]))
RaisedTasks == {i \in 1..Len(task) : task[i] = "raised"}

\* C3 as stated: a renderer that is missing or errors never makes
\* generate_spectrogram_threads raise, and the call ends reporting a failure
\* count equal to the number of submitted files without a rendered image.
C3_AsStated ==
    sp_pc \in {"returned_early", "reported"} /\ Len(sp_paths) >= 1 =>
        /\ reported_failed # Unset
        /\ reported_failed = Cardinality({i \in 1..Len(sp_paths) : ~HasImage(i)})

\* C3 amended: when ffmpeg_works() holds, a renderer error for a file never
\* leaves generate_spectrogram_threads, every submitted task still runs to its
\* end, and the reported failure count is the number of submitted files whose
\* task raised; when the renderer is missing the call returns without
\* raising, having rendered nothing and reported no count.
C3_RendererFailureNotFatal ==
    /\ sp_pc \in {"pool", "reported"} => ffmpeg_ok /\ Len(task) = Len(sp_paths)
    /\ RaisedTasks # {} => sp_pc \in {"pool", "reported"}
    /\ sp_pc = "reported" =>
          /\ \A i \in 1..Len(sp_paths) : Finished(i)
          /\ reported_failed = Cardinality(RaisedTasks)
          /\ {failures[k] : k \in 1..Len(failures)} = {sp_paths[i] : i \in RaisedTasks}
    /\ sp_pc = "returned_early" =>
          /\ ~ffmpeg_ok
          /\ reported_failed = Unset
          /\ task = <<>>
          /\ \A im \in images : im.by = 0

C3_Witness ==
    /\ sp_pc = "reported"
    /\ reported_failed >= 1
    /\ \E i \in 1..Len(task) : task[i] = "returned"

\* C10 as stated: distinct submitted files have distinct output images, so no
\* two running tasks write the same output file and no file is skipped
\* because of an image rendered from a different input file.
C10_AsStated ==
    sp_pc = "pool" =>
        /\ \A i, j \in Running : i # j => OutPath(sp_paths[i]) # OutPath(sp_paths[j])
        /\ \A i \in 1..Len(task) :
              task[i] = "skipped" =>
                 \A im \in images : im.out = OutPath(sp_paths[i]) => im.by = 0

====
